---- MODULE Spec2Model ----
(***************************************************************************)
(* Model of src/main.py: the manifest-driven batch extractor of audio      *)
(* segments.  Strings are sequences of one-character strings, so that      *)
(* splitting, trimming, matching and formatting are computed as the code   *)
(* computes them.  A filesystem path is a sequence of components.          *)
(***************************************************************************)
EXTENDS Integers, Sequences, FiniteSets, TLC

VARIABLES
    pc,               \* position of the run: start, reading, fetch, trim, done, aborted, crashed
    exit_status,      \* process exit status once the run has ended, -1 while running
    fs_cookies,       \* base_dir/cookies.txt exists
    fs_browser,       \* the browser credential directories that exist
    fs_dirs,          \* the output directories that exist
    fs_files,         \* temporary artifacts: records [path, size]
    has_cookies_file, \* main's local, set once at line 164
    prefix,           \* main's local: the active category label or None
    output_folder,    \* main's local: the active category folder or None
    video_id_counts,  \* main's local: the segment counters
    row,              \* main's loop variable: the row read last
    rows_read,        \* the number of rows the csv reader has delivered
    jobs,             \* the calls of download_youtube_segment, in order
    section_start,    \* the number of Jobs made before the labelled header row read last
    temp_path,        \* download_youtube_segment's local
    download_methods, \* download_youtube_segment's local
    i,                \* download_youtube_segment's loop index
    last_error,       \* download_youtube_segment's local
    last_exit,        \* exit status of the fetch call made last in this Job
    last_header,      \* the header row read last, <<>> before the first one
    first_methods,    \* the fetch methods of the first Job of the run
    second_run,       \* main's locals and Jobs in a second run over the same rows
    time_probe        \* a time token and what the time parser makes of it

vars == <<pc, exit_status, fs_cookies, fs_browser, fs_dirs, fs_files,
          has_cookies_file, prefix, output_folder, video_id_counts, row,
          rows_read, jobs, section_start, temp_path, download_methods, i,
          last_error, last_exit, last_header, first_methods, second_run,
          time_probe>>

\* ------------------------------------------------------------------------
\* Bounds of the model
\* ------------------------------------------------------------------------
\* The longest manifest, in rows.
MaxRows == 4

\* The most rows of a manifest that become Jobs.
MaxJobs == 2

\* The most colon-separated parts of a time token.
MaxParts == 4

\* ------------------------------------------------------------------------
\* Strings
\* ------------------------------------------------------------------------
\* Python's None for the optional strings and paths of main(); every real
\* value of those variables is a non-empty sequence.
None == <<>>

Rep(c, n) == [k \in 1..n |-> c]

Digits == <<"0", "1", "2", "3", "4", "5", "6", "7", "8", "9">>

IsDigit(c) == \E d \in 1..10 : Digits[d] = c

DigitVal(c) == (CHOOSE d \in 1..10 : Digits[d] = c) - 1

\* str.strip(): drops the leading and trailing blanks.
RECURSIVE LStrip(_)
LStrip(s) == IF s # <<>> /\ Head(s) = " " THEN LStrip(Tail(s)) ELSE s

RECURSIVE RStrip(_)
RStrip(s) ==
    IF s # <<>> /\ s[Len(s)] = " " THEN RStrip(SubSeq(s, 1, Len(s) - 1)) ELSE s

Strip(s) == RStrip(LStrip(s))

\* str.lower() on the letters that occur in the manifests of the model.
LowerChar(c) ==
    CASE c = "I" -> "i"
      [] c = "D" -> "d"
      [] c = "S" -> "s"
      [] c = "C" -> "c"
      [] c = "T" -> "t"
      [] OTHER -> c

Lower(s) == [k \in 1..Len(s) |-> LowerChar(s[k])]

\* sub in s
Contains(s, sub) ==
    \E p \in 1..(Len(s) - Len(sub) + 1) : SubSeq(s, p, p + Len(sub) - 1) = sub

\* str.split(sep) for a one-character separator: always at least one part.
RECURSIVE Split(_, _)
Split(s, sep) ==
    IF \A k \in 1..Len(s) : s[k] # sep
    THEN <<s>>
    ELSE LET p == CHOOSE k \in 1..Len(s) :
                      s[k] = sep /\ \A m \in 1..(k - 1) : s[m] # sep
         IN  <<SubSeq(s, 1, p - 1)>> \o Split(SubSeq(s, p + 1, Len(s)), sep)

\* str(n) for a natural number.
RECURSIVE ToStr(_)
ToStr(n) == IF n < 10 THEN <<Digits[n + 1]>>
            ELSE ToStr(n \div 10) \o <<Digits[(n % 10) + 1]>>

\* f"{n:02d}"
Pad2(n) == IF n < 10 THEN <<"0">> \o ToStr(n) ELSE ToStr(n)

\* ------------------------------------------------------------------------
\* parse_time_range, extract_prefix_from_header, format_time
\* ------------------------------------------------------------------------
\* The ValueError that int() and the tuple unpacking raise.
ValueError == -1

\* int(s): blanks around the digits are accepted, anything else raises.
RECURSIVE DigitsValue(_)
DigitsValue(s) ==
    IF s = <<>> THEN 0
    ELSE 10 * DigitsValue(SubSeq(s, 1, Len(s) - 1)) + DigitVal(s[Len(s)])

int(s) ==
    LET t == Strip(s)
    IN  IF t # <<>> /\ \A k \in 1..Len(t) : IsDigit(t[k])
        THEN DigitsValue(t)
        ELSE ValueError

time_to_seconds(time_str) ==
    LET parts == Split(time_str, ":")
        n(k)  == int(parts[k])
    IN  IF Len(parts) = 2
        THEN IF n(1) = ValueError \/ n(2) = ValueError THEN ValueError
             ELSE n(1) * 60 + n(2)
        ELSE IF Len(parts) = 3
        THEN IF n(1) = ValueError \/ n(2) = ValueError \/ n(3) = ValueError
             THEN ValueError
             ELSE n(1) * 3600 + n(2) * 60 + n(3)
        ELSE n(1)

\* What parse_time_range yields when the call raises.
Raised == <<ValueError>>

\* The pair (start, end) in seconds, or Raised.
parse_time_range(time_str) ==
    LET halves == Split(time_str, "-")
    IN  IF Len(halves) # 2 THEN Raised
        ELSE LET s == time_to_seconds(Strip(halves[1]))
                 e == time_to_seconds(Strip(halves[2]))
             IN  IF s = ValueError \/ e = ValueError THEN Raised
                 ELSE <<s, e>>

\* re.search(r'\(([^)]+)\)', header): the leftmost "(" that is followed by
\* at least one character other than ")" and then a ")".
MatchAt(header, p) ==
    /\ header[p] = "("
    /\ \E q \in (p + 2)..Len(header) :
           /\ header[q] = ")"
           /\ \A m \in (p + 1)..(q - 1) : header[m] # ")"

extract_prefix_from_header(header) ==
    IF \E p \in 1..Len(header) : MatchAt(header, p)
    THEN LET p == CHOOSE a \in 1..Len(header) :
                      MatchAt(header, a) /\ \A b \in 1..(a - 1) : ~MatchAt(header, b)
             q == CHOOSE a \in (p + 2)..Len(header) :
                      header[a] = ")" /\ \A m \in (p + 1)..(a - 1) : header[m] # ")"
         IN  SubSeq(header, p + 1, q - 1)
    ELSE None

format_time_nohours(seconds) ==
    Pad2((seconds % 3600) \div 60) \o <<":">> \o Pad2(seconds % 60)

format_time(seconds) ==
    LET hours   == seconds \div 3600
        minutes == (seconds % 3600) \div 60
        secs    == seconds % 60
    IN  IF hours > 0
        THEN Pad2(hours) \o <<":">> \o Pad2(minutes) \o <<":">> \o Pad2(secs)
        ELSE Pad2(minutes) \o <<":">> \o Pad2(secs)

\* ------------------------------------------------------------------------
\* Paths and the filesystem
\* ------------------------------------------------------------------------
\* Paths are relative to base_dir.
wav_dir == << <<"w", "a", "v">> >>

cookies_file == << <<"c", "o", "o", "k", "i", "e", "s", ".", "t", "x", "t">> >>

all_browser_paths ==
    <<"~/.config/google-chrome",
      "~/Library/Application Support/Google/Chrome",
      "~/Library/Cookies",
      "~/.mozilla/firefox",
      "~/Library/Application Support/Firefox">>

Parent(path) == SubSeq(path, 1, Len(path) - 1)

Exists(files, path) == \E f \in files : f.path = path

StSize(files, path) == (CHOOSE f \in files : f.path = path).size

\* unlink() that leaves the file where it is.
Unlink_kept(files, path) == files

Unlink(files, path) == {f \in files : f.path # path}

\* ------------------------------------------------------------------------
\* The manifests of the model
\* ------------------------------------------------------------------------
VidA == Rep("a", 11)
VidB == Rep("b", 11)

HeaderMarker == <<"i", "d", " ", "(">>

HeaderSC      == << <<"i", "d", " ", "(", "S", "C", ")">>, <<"t">> >>
HeaderT       == << <<"I", "D", " ", "(", "T", ")">>, <<"t">> >>
HeaderNoLabel == << <<"i", "d", " ", "(">>, <<"t">> >>

Time1   == <<"0", ":", "0", "5", "-", "1", ":", "0", "0">>
Time2   == <<"7", " ", "-", " ", "1", ":", "0", ":", "9">>
TimeBad == <<"1", ":", "x", "-", "2">>

DataA     == << <<" ">> \o VidA \o <<" ">>, Time1 >>
DataB     == << VidB, Time2 >>
DataABad  == << VidA, TimeBad >>
DataShort == << Rep("a", 10), Time1 >>
DataLongBad == << Rep("a", 12), TimeBad >>
DataBlank == << <<" ">>, Time1 >>
OneCell   == << VidA >>
EmptyRow  == << >>

RowPool == {HeaderSC, HeaderT, HeaderNoLabel, DataA, DataB, DataABad,
            DataShort, DataLongBad, DataBlank, OneCell, EmptyRow}

\* What the fetch collaborator can report and leave behind.
ExitStatuses == {0, 1}
ArtifactSizes == {0, 1}

\* ------------------------------------------------------------------------
\* The run
\* ------------------------------------------------------------------------
\* Lines 211-213: main's locals when the loop begins, and no Job made yet.
SecondRunStart ==
    [prefix          |-> None,
     output_folder   |-> None,
     video_id_counts |-> <<>>,
     jobs            |-> <<>>]

\* No time token is under test.
NoProbe ==
    [pc |-> "off", time_str |-> <<>>, seconds |-> 0, text |-> <<>>, back |-> 0]

Init ==
    /\ pc = "start"
    /\ exit_status = -1
    /\ fs_cookies \in BOOLEAN
    /\ fs_browser \in {{}, {all_browser_paths[3]}}
    /\ fs_dirs \in {{}, {wav_dir}}
    /\ fs_files = {}
    /\ has_cookies_file = FALSE
    /\ prefix = None
    /\ output_folder = None
    /\ video_id_counts = <<>>
    /\ row = <<>>
    /\ rows_read = 0
    /\ jobs = <<>>
    /\ section_start = 0
    /\ temp_path = None
    /\ download_methods = <<>>
    /\ i = 0
    /\ last_error = None
    /\ last_exit = 0
    /\ last_header = <<>>
    /\ first_methods = <<>>
    /\ second_run = SecondRunStart
    /\ time_probe = NoProbe

\* Lines 167-189: some browser credential directory exists; looked for only
\* when there is no stored credential file.
HasBrowserCookies(has_file, browser_dirs) ==
    /\ ~has_file
    /\ \E k \in 1..Len(all_browser_paths) : all_browser_paths[k] \in browser_dirs

\* The check of line 191 left out: the run goes on without authorization.
AuthAvailable_unchecked(has_file, has_browser) == TRUE

\* Line 191, negated: the run may go on.
AuthAvailable(has_file, has_browser) == has_file \/ has_browser

\* main(), lines 157-204: the authorization check made before the manifest
\* is opened.
main_start ==
    /\ pc = "start"
    /\ fs_dirs' = fs_dirs \cup {wav_dir}
    /\ has_cookies_file' = fs_cookies
    /\ IF AuthAvailable(fs_cookies, HasBrowserCookies(fs_cookies, fs_browser))
       THEN pc' = "reading" /\ exit_status' = exit_status
       ELSE pc' = "aborted" /\ exit_status' = 1
    /\ UNCHANGED <<fs_cookies, fs_browser, fs_files, prefix, output_folder,
                   video_id_counts, row, rows_read, jobs, section_start,
                   temp_path, download_methods, i, last_error, last_exit,
                   last_header, first_methods, second_run, time_probe>>

\* Line 218: a header row carries the marker "id (" in its first cell.
IsHeaderRow(r) == Len(r) > 0 /\ Contains(Lower(r[1]), HeaderMarker)

\* The reset of line 230 left out.
ResetCounts_kept(counts) == counts

\* Line 230: the counters a labelled header row leaves behind.
ResetCounts(counts) == <<>>

\* The test of line 238 left out.
NoCategory_ignored(pfx, folder) == FALSE

\* Line 238 testing the folder alone.
NoCategory_folderonly(pfx, folder) == folder = None

\* Line 238: no category is active.
NoCategory(pfx, folder) == pfx = None \/ folder = None

\* Line 248 rejecting only the references that are too short.
InvalidId_short(video_id) == Len(video_id) < 11

\* Line 248: the reference is not 11 characters long.
InvalidId(video_id) == Len(video_id) # 11

\* Lines 256-259 with the first occurrence counted as 1.
NextCounts_from1(counts, video_id) ==
    [v \in (DOMAIN counts) \cup {video_id} |->
        IF v = video_id
        THEN IF video_id \in DOMAIN counts THEN counts[video_id] + 1 ELSE 1
        ELSE counts[v]]

\* Lines 256-259: the counters after one more occurrence of video_id.
NextCounts(counts, video_id) ==
    [v \in (DOMAIN counts) \cup {video_id} |->
        IF v = video_id
        THEN IF video_id \in DOMAIN counts THEN counts[video_id] + 1 ELSE 0
        ELSE counts[v]]

\* Line 264
OutputFilename(pfx, video_id, seg_num) ==
    pfx \o <<"-">> \o video_id \o <<"_", "s", "e", "g">> \o ToStr(seg_num)
        \o <<".", "w", "a", "v">>

\* Line 48
TempFilename(video_id) ==
    <<"t", "e", "m", "p", "_">> \o video_id \o <<".", "w", "a", "v">>

\* Lines 51-82 with the browsers tried before the stored credential file.
BuildMethods_browsersfirst(cookies_arg, cookies_exist) ==
    <<"chrome", "safari", "firefox">>
        \o (IF cookies_arg # None /\ cookies_exist THEN <<"cookies.txt">> ELSE <<>>)

\* Lines 51-82 without the test of line 54 that the file exists.
BuildMethods_nocheck(cookies_arg, cookies_exist) ==
    (IF cookies_arg # None THEN <<"cookies.txt">> ELSE <<>>)
        \o <<"chrome", "safari", "firefox">>

\* Lines 51-82: the ordered fetch methods of one Job.
BuildMethods(cookies_arg, cookies_exist) ==
    (IF cookies_arg # None /\ cookies_exist THEN <<"cookies.txt">> ELSE <<>>)
        \o <<"chrome", "safari", "firefox">>

\* The variables of download_youtube_segment while no call is in progress.
NoCall ==
    /\ temp_path' = None
    /\ download_methods' = <<>>
    /\ i' = 0
    /\ last_error' = None
    /\ last_exit' = 0

\* Lines 235, 239, 245, 250: the row is skipped.
SkipRow ==
    /\ pc' = "reading"
    /\ UNCHANGED <<exit_status, fs_dirs, prefix, output_folder,
                   video_id_counts, jobs, section_start, temp_path,
                   download_methods, i, last_error, last_exit, first_methods>>

\* Lines 219-231 with the label taken over only when there is one.
HeaderRow_keep(r) ==
    LET p == extract_prefix_from_header(r[1])
    IN  /\ IF p # None
           THEN /\ prefix' = p
                /\ output_folder' = wav_dir \o <<p>>
                /\ fs_dirs' = fs_dirs \cup {wav_dir \o <<p>>}
                /\ video_id_counts' = ResetCounts(video_id_counts)
                /\ section_start' = Len(jobs)
           ELSE UNCHANGED <<prefix, output_folder, fs_dirs, video_id_counts,
                            section_start>>
        /\ pc' = "reading"
        /\ UNCHANGED <<exit_status, jobs, temp_path, download_methods, i,
                       last_error, last_exit, first_methods>>

\* Lines 219-231
HeaderRow(r) ==
    LET p == extract_prefix_from_header(r[1])
    IN  /\ prefix' = p
        /\ IF p # None
           THEN /\ output_folder' = wav_dir \o <<p>>
                /\ fs_dirs' = fs_dirs \cup {wav_dir \o <<p>>}
                /\ video_id_counts' = ResetCounts(video_id_counts)
                /\ section_start' = Len(jobs)
           ELSE UNCHANGED <<output_folder, fs_dirs, video_id_counts,
                            section_start>>
        /\ pc' = "reading"
        /\ UNCHANGED <<exit_status, jobs, temp_path, download_methods, i,
                       last_error, last_exit, first_methods>>

\* Line 253 raises: the ValueError leaves main() and ends the process.
Crash ==
    /\ pc' = "crashed"
    /\ exit_status' = 1
    /\ UNCHANGED <<fs_dirs, prefix, output_folder, video_id_counts, jobs,
                   section_start, temp_path, download_methods, i, last_error,
                   last_exit, first_methods>>

\* Lines 255-278 and 40-85: the Job is named and download_youtube_segment
\* is entered, up to its first fetch call.
StartJob(video_id, times) ==
    LET counts      == NextCounts(video_id_counts, video_id)
        seg_num     == counts[video_id]
        output_path == output_folder \o <<OutputFilename(prefix, video_id, seg_num)>>
        cookies_arg == IF has_cookies_file THEN cookies_file ELSE None
    IN  /\ video_id_counts' = counts
        /\ jobs' = Append(jobs,
               [prefix         |-> prefix,
                video_id       |-> video_id,
                start_time     |-> times[1],
                end_time       |-> times[2],
                seg_num        |-> seg_num,
                output_path    |-> output_path,
                cookies_file   |-> cookies_arg,
                duration       |-> times[2] - times[1],
                start_time_str |-> format_time(times[1]),
                fetched        |-> FALSE,
                transcodes     |-> 0,
                returned       |-> "running"])
        /\ temp_path' = Parent(output_path) \o <<TempFilename(video_id)>>
        /\ download_methods' = BuildMethods(cookies_arg, fs_cookies)
        /\ first_methods' = IF jobs = <<>>
                            THEN BuildMethods(cookies_arg, fs_cookies)
                            ELSE first_methods
        /\ i' = 1
        /\ last_error' = None
        /\ last_exit' = 0
        /\ pc' = "fetch"
        /\ UNCHANGED <<exit_status, fs_dirs, prefix, output_folder,
                       section_start>>

\* Lines 241-278
DataRow(r) ==
    LET video_id   == Strip(r[1])
        time_range == Strip(r[2])
    IN  IF video_id = <<>> \/ time_range = <<>> THEN SkipRow
        ELSE IF InvalidId(video_id) THEN SkipRow
        ELSE LET times == parse_time_range(time_range)
             IN  IF times = Raised THEN Crash
                 ELSE Len(jobs) < MaxJobs /\ StartJob(video_id, times)

\* Line 278 with the segment index of a failed Job given back.
CountsAfterReturn_release(counts, video_id, result) ==
    IF result # "False" THEN counts
    ELSE IF counts[video_id] = 0
    THEN [v \in (DOMAIN counts) \ {video_id} |-> counts[v]]
    ELSE [counts EXCEPT ![video_id] = @ - 1]

\* Line 278: main() drops the value download_youtube_segment returns, the
\* counters stay as the call found them.
CountsAfterReturn(counts, video_id, result) == counts

\* Lines 216-278 in a second run that reads the same row r and whose call of
\* download_youtube_segment, if the row makes a Job, returns result: the
\* locals of main() and the Jobs after the row.
SecondRunRow(run, r, result) ==
    IF IsHeaderRow(r)
    THEN LET p == extract_prefix_from_header(r[1])
         IN  IF p # None
             THEN [run EXCEPT !.prefix = p,
                              !.output_folder = wav_dir \o <<p>>,
                              !.video_id_counts = ResetCounts(@)]
             ELSE [run EXCEPT !.prefix = p]
    ELSE IF Len(r) < 2 \/ NoCategory(run.prefix, run.output_folder) THEN run
    ELSE LET video_id   == Strip(r[1])
             time_range == Strip(r[2])
         IN  IF video_id = <<>> \/ time_range = <<>> \/ InvalidId(video_id)
             THEN run
             ELSE LET times == parse_time_range(time_range)
                  IN  IF times = Raised THEN run
                      ELSE LET counts  == NextCounts(run.video_id_counts, video_id)
                               seg_num == counts[video_id]
                           IN  [run EXCEPT
                                   !.video_id_counts =
                                       CountsAfterReturn(counts, video_id, result),
                                   !.jobs = Append(@,
                                       [prefix      |-> run.prefix,
                                        video_id    |-> video_id,
                                        start_time  |-> times[1],
                                        end_time    |-> times[2],
                                        seg_num     |-> seg_num,
                                        output_path |->
                                            run.output_folder \o
                                            <<OutputFilename(run.prefix, video_id,
                                                             seg_num)>>])]

\* main(), lines 216-278: one pass of the loop over the manifest's rows, up
\* to the call of download_youtube_segment.
main_loop_body ==
    /\ pc = "reading"
    /\ rows_read < MaxRows
    /\ \E r \in RowPool :
          /\ row' = r
          /\ rows_read' = rows_read + 1
          /\ last_header' = IF IsHeaderRow(r) THEN r ELSE last_header
          /\ \E result \in {"True", "False"} :
                 second_run' = SecondRunRow(second_run, r, result)
          /\ IF IsHeaderRow(r) THEN HeaderRow(r)
             ELSE IF Len(r) < 2 THEN SkipRow
             ELSE IF NoCategory(prefix, output_folder) THEN SkipRow
             ELSE DataRow(r)
    /\ UNCHANGED <<fs_cookies, fs_browser, fs_files, has_cookies_file,
                   time_probe>>

\* main(), line 216: the reader is exhausted, main() returns.
main_end ==
    /\ pc = "reading"
    /\ pc' = "done"
    /\ exit_status' = 0
    /\ UNCHANGED <<fs_cookies, fs_browser, fs_dirs, fs_files,
                   has_cookies_file, prefix, output_folder, video_id_counts,
                   row, rows_read, jobs, section_start, temp_path,
                   download_methods, i, last_error, last_exit, last_header,
                   first_methods, second_run, time_probe>>

\* Lines 96 and 119 without the size test.
HasArtifact_anysize(files, path) == Exists(files, path)

\* Lines 96 and 119: a non-empty artifact exists at path.
HasArtifact(files, path) == Exists(files, path) /\ StSize(files, path) > 0

\* Lines 89-98 with the except clause going on to the next method.
FetchedOk_bystatus(files, path, status) ==
    status = 0 /\ Exists(files, path) /\ StSize(files, path) > 0

\* Lines 89-98: the test that ends the loop over the fetch methods.  The
\* exit status of the call (the CalledProcessError caught at line 90) plays
\* no part in it.
FetchedOk(files, path, status) == HasArtifact(files, path)

\* Lines 116, 123, 154 raising instead of returning False.
AfterReturn_raise(result) == IF result = "False" THEN "crashed" ELSE "reading"

\* Lines 116, 123, 146, 154: where the run continues when
\* download_youtube_segment returns result.
AfterReturn(result) == "reading"

\* download_youtube_segment returns result after transcoded calls of the
\* transcode collaborator; its locals go away.
Return(result, transcoded) ==
    /\ jobs' = [jobs EXCEPT ![Len(jobs)].returned = result,
                            ![Len(jobs)].transcodes = @ + transcoded]
    /\ video_id_counts' =
           CountsAfterReturn(video_id_counts, jobs[Len(jobs)].video_id, result)
    /\ pc' = AfterReturn(result)
    /\ exit_status' = IF AfterReturn(result) = "crashed" THEN 1 ELSE exit_status
    /\ NoCall

\* download_youtube_segment, lines 86-116: one pass of the loop over the
\* fetch methods.  The fetch collaborator returns any exit status and leaves
\* no artifact, an empty one or a non-empty one at temp_path.
download_fetch ==
    /\ pc = "fetch"
    /\ \E status \in ExitStatuses, present \in BOOLEAN, size \in ArtifactSizes :
          LET files == Unlink(fs_files, temp_path) \cup
                           (IF present
                            THEN {[path |-> temp_path, size |-> size]}
                            ELSE {})
              error == IF status # 0 THEN <<"e", "r", "r">> ELSE last_error
          IN  IF FetchedOk(files, temp_path, status)
              THEN /\ fs_files' = files
                   /\ jobs' = [jobs EXCEPT ![Len(jobs)].fetched =
                                               @ \/ (present /\ size > 0)]
                   /\ last_error' = error
                   /\ last_exit' = status
                   /\ pc' = "trim"
                   /\ UNCHANGED <<exit_status, video_id_counts, temp_path,
                                  download_methods, i>>
              ELSE IF i < Len(download_methods)
              THEN /\ fs_files' = files
                   /\ jobs' = [jobs EXCEPT ![Len(jobs)].fetched =
                                               @ \/ (present /\ size > 0)]
                   /\ last_error' = error
                   /\ last_exit' = status
                   /\ i' = i + 1
                   /\ UNCHANGED <<pc, exit_status, video_id_counts, temp_path,
                                  download_methods>>
              ELSE /\ fs_files' = Unlink(files, temp_path)
                   /\ Return("False", 0)
    /\ UNCHANGED <<fs_cookies, fs_browser, fs_dirs, has_cookies_file, prefix,
                   output_folder, row, rows_read, section_start, last_header,
                   first_methods, second_run, time_probe>>

\* download_youtube_segment, lines 119-154: the test after the loop, the
\* transcode call, which succeeds or fails, and the removal of the temporary
\* artifact.
download_trim ==
    /\ pc = "trim"
    /\ fs_files' = Unlink(fs_files, temp_path)
    /\ IF ~HasArtifact(fs_files, temp_path)
       THEN Return("False", 0)
       ELSE \E ok \in BOOLEAN : Return(IF ok THEN "True" ELSE "False", 1)
    /\ UNCHANGED <<fs_cookies, fs_browser, fs_dirs, has_cookies_file, prefix,
                   output_folder, row, rows_read, section_start, last_header,
                   first_methods, second_run, time_probe>>

\* The environment: base_dir/cookies.txt is removed or created while the
\* run is in progress.
env_cookies ==
    /\ pc \in {"reading", "fetch", "trim"}
    /\ fs_cookies' = ~fs_cookies
    /\ UNCHANGED <<pc, exit_status, fs_browser, fs_dirs, fs_files,
                   has_cookies_file, prefix, output_folder, video_id_counts,
                   row, rows_read, jobs, section_start, temp_path,
                   download_methods, i, last_error, last_exit, last_header,
                   first_methods, second_run, time_probe>>

Next ==
    \/ main_start
    \/ main_loop_body
    \/ main_end
    \/ download_fetch
    \/ download_trim
    \/ env_cookies

Spec == Init /\ [][Next]_vars

\* ------------------------------------------------------------------------
\* The time parser on its own
\* ------------------------------------------------------------------------
\* The parts time tokens are made of: integers with and without leading
\* zeros, below and above 60, and one part that is no integer.
TimeParts ==
    {<<"0">>, <<"0", "7">>, <<"5", "9">>, <<"1", "0", "0">>, <<"x">>}

\* The tokens of n parts joined by colons.
RECURSIVE TokensOf(_)
TokensOf(n) ==
    IF n = 1 THEN TimeParts
    ELSE {t \o <<":">> \o part : t \in TokensOf(n - 1), part \in TimeParts}

TimeTokens == UNION {TokensOf(n) : n \in 1..MaxParts}

\* The variables of the run, at rest while the time parser is exercised.
run_vars == <<pc, exit_status, fs_cookies, fs_browser, fs_dirs, fs_files,
              has_cookies_file, prefix, output_folder, video_id_counts, row,
              rows_read, jobs, section_start, temp_path, download_methods, i,
              last_error, last_exit, last_header, first_methods, second_run>>

InitTime ==
    /\ pc = "off"
    /\ exit_status = -1
    /\ fs_cookies = FALSE
    /\ fs_browser = {}
    /\ fs_dirs = {}
    /\ fs_files = {}
    /\ has_cookies_file = FALSE
    /\ prefix = None
    /\ output_folder = None
    /\ video_id_counts = <<>>
    /\ row = <<>>
    /\ rows_read = 0
    /\ jobs = <<>>
    /\ section_start = 0
    /\ temp_path = None
    /\ download_methods = <<>>
    /\ i = 0
    /\ last_error = None
    /\ last_exit = 0
    /\ last_header = <<>>
    /\ first_methods = <<>>
    /\ second_run = SecondRunStart
    /\ \E t \in TimeTokens : time_probe = [NoProbe EXCEPT !.pc = "token",
                                                          !.time_str = t]

\* time_to_seconds(time_str), lines 9-16, raising or returning the seconds.
probe_time_to_seconds ==
    /\ time_probe.pc = "token"
    /\ LET s == time_to_seconds(time_probe.time_str)
       IN  time_probe' = [time_probe EXCEPT
               !.pc = IF s = ValueError THEN "raised" ELSE "seconds",
               !.seconds = s]
    /\ UNCHANGED run_vars

\* format_time(seconds), lines 28-36, as line 44 calls it on a parsed time.
probe_format_time ==
    /\ time_probe.pc = "seconds"
    /\ time_probe' = [time_probe EXCEPT !.pc = "text",
                                        !.text = format_time(time_probe.seconds)]
    /\ UNCHANGED run_vars

\* time_to_seconds on the text format_time made.
probe_read_back ==
    /\ time_probe.pc = "text"
    /\ time_probe' = [time_probe EXCEPT !.pc = "back",
                                        !.back = time_to_seconds(time_probe.text)]
    /\ UNCHANGED run_vars

NextTime ==
    \/ probe_time_to_seconds
    \/ probe_format_time
    \/ probe_read_back

SpecTime == InitTime /\ [][NextTime]_vars

\* ------------------------------------------------------------------------
\* Properties
\* ------------------------------------------------------------------------
\* An authorization source was available when main() made its check.
Authorized ==
    has_cookies_file \/ \E k \in 1..Len(all_browser_paths) :
                            all_browser_paths[k] \in fs_browser

\* The Jobs of the category section that is open now.
SectionJobs == (section_start + 1)..Len(jobs)

\* C1: no two Jobs of a run target the same output path.
C1_DistinctPaths ==
    \A a, b \in 1..Len(jobs) :
        a # b => jobs[a].output_path # jobs[b].output_path

\* The part of a Job's file name that precedes the segment number.
Stem(job) ==
    LET name == job.output_path[Len(job.output_path)]
    IN  SubSeq(name, 1, Len(name) - 4 - Len(ToStr(job.seg_num)))

\* C2: within one category section the segment index of a Job equals the
\* number of earlier Jobs of the section with the same reference, and the
\* file names of two such Jobs differ in nothing but the number after _seg.
C2_SegmentIndexCountsEarlier ==
    \A k \in SectionJobs :
        /\ jobs[k].seg_num =
               Cardinality({m \in SectionJobs :
                               m < k /\ jobs[m].video_id = jobs[k].video_id})
        /\ \A m \in SectionJobs :
               jobs[m].video_id = jobs[k].video_id =>
                   /\ Parent(jobs[m].output_path) = Parent(jobs[k].output_path)
                   /\ Stem(jobs[m]) = Stem(jobs[k])
                   /\ jobs[k].output_path[Len(jobs[k].output_path)] =
                          Stem(jobs[k]) \o ToStr(jobs[k].seg_num)
                              \o <<".", "w", "a", "v">>

C2_Witness ==
    \E k, m \in SectionJobs :
        /\ k < m
        /\ jobs[k].video_id = jobs[m].video_id
        /\ jobs[k].seg_num = 0
        /\ jobs[m].seg_num = 1

\* The row read last is a header row with a parenthesized label.
LabelledHeaderRead ==
    /\ rows_read > 0
    /\ IsHeaderRow(row)
    /\ extract_prefix_from_header(row[1]) # None

\* C3: a labelled header row empties the segment counters, and the first
\* Job for a reference after it has segment index 0.
C3_HeaderResetsCounters ==
    /\ (pc = "reading" /\ LabelledHeaderRead) => video_id_counts = <<>>
    /\ \A k \in SectionJobs :
           (\A m \in SectionJobs : m < k => jobs[m].video_id # jobs[k].video_id)
               => jobs[k].seg_num = 0

C3_Witness ==
    \E m \in 1..section_start, k \in SectionJobs :
        /\ jobs[m].video_id = jobs[k].video_id
        /\ jobs[m].prefix # jobs[k].prefix
        /\ jobs[k].seg_num = 0

\* A data row with a valid reference and an active category whose time
\* range does not parse.
BadTimeRow(r, pfx, folder) ==
    /\ ~IsHeaderRow(r)
    /\ Len(r) >= 2
    /\ ~NoCategory(pfx, folder)
    /\ Len(Strip(r[1])) = 11
    /\ Strip(r[2]) # <<>>
    /\ parse_time_range(Strip(r[2])) = Raised

\* C4: a data row whose time range does not parse fails alone: it makes no
\* Job, changes nothing, and the run goes on reading.
C4_BadTimeRowSkipped ==
    [][(pc = "reading" /\ rows_read' = rows_read + 1
            /\ BadTimeRow(row', prefix, output_folder))
        => /\ pc' = "reading"
           /\ UNCHANGED <<exit_status, jobs, prefix, output_folder,
                          video_id_counts>>]_vars

\* C5: a Job that fails, by fetch exhaustion or by a failed transcode,
\* returns to the loop of main(), which goes on with the next row.
C5_FailedJobReturns ==
    [][(pc \in {"fetch", "trim"} /\ jobs'[Len(jobs')].returned = "False")
        => /\ pc' = "reading"
           /\ exit_status' = -1
           /\ UNCHANGED <<rows_read, prefix, output_folder, video_id_counts>>]_vars

C5_Witness ==
    /\ Len(jobs) = 2
    /\ jobs[1].returned = "False" /\ jobs[1].transcodes = 0
    /\ jobs[2].returned = "False" /\ jobs[2].transcodes = 1
    /\ rows_read = 4
    /\ pc = "done"

\* C6: with an authorization source available the run ends in Done with
\* exit status zero.
C6_EndsDone ==
    (Authorized /\ pc \in {"done", "aborted", "crashed"})
        => (pc = "done" /\ exit_status = 0)

\* C7: without any authorization source the run aborts with a non-zero
\* status before a row is read, a Job is made or a collaborator is called,
\* and nothing happens afterwards.
C7_NoAuthAborts ==
    [][/\ (pc = "start" /\ ~fs_cookies
              /\ \A k \in 1..Len(all_browser_paths) :
                     all_browser_paths[k] \notin fs_browser)
          => (pc' = "aborted" /\ exit_status' # 0 /\ rows_read' = 0
                  /\ jobs' = <<>> /\ fs_files' = {})
       /\ pc = "aborted" => UNCHANGED vars]_vars

C7_Witness ==
    pc = "aborted" /\ exit_status = 1 /\ ~fs_cookies /\ fs_browser = {}

\* C8: a Job none of whose fetch attempts left a non-empty artifact returns
\* False, and the transcode collaborator is not called for it.
C8_NoArtifactNoTranscode ==
    \A k \in 1..Len(jobs) :
        ~jobs[k].fetched =>
            /\ jobs[k].transcodes = 0
            /\ jobs[k].returned \in {"running", "False"}
            /\ (k = Len(jobs) /\ jobs[k].returned = "running") => pc = "fetch"

C8_Witness ==
    \E k \in 1..Len(jobs) :
        ~jobs[k].fetched /\ jobs[k].returned = "False" /\ jobs[k].transcodes = 0

\* C9: a fetch attempt with a non-zero exit status that leaves a non-empty
\* artifact ends the loop, and the Job goes on to the transcode call.
C9_TolerantSuccess ==
    [][/\ (pc = "fetch" /\ last_exit' # 0 /\ Exists(fs_files', temp_path)
              /\ StSize(fs_files', temp_path) > 0)
          => pc' = "trim"
       /\ (pc = "trim" /\ last_exit # 0 /\ pc' # "trim")
          => jobs'[Len(jobs')].transcodes = 1]_vars

C9_Witness ==
    /\ pc = "trim"
    /\ last_exit # 0
    /\ jobs[Len(jobs)].fetched
    /\ Exists(fs_files, temp_path)

\* C10: while no category is active no row makes a Job, and no data row
\* changes the segment counters.
C10_NoCategoryNoJob ==
    [][(pc = "reading" /\ rows_read' = rows_read + 1
            /\ (prefix = None \/ output_folder = None))
        => /\ jobs' = jobs
           /\ pc' = "reading"
           /\ ~IsHeaderRow(row') => video_id_counts' = video_id_counts]_vars

C10_Witness ==
    /\ pc = "reading"
    /\ rows_read > 0
    /\ row = DataA
    /\ prefix = None
    /\ jobs = <<>>

\* ------------------------------------------------------------------------
\* Properties of the time parser (SpecTime)
\* ------------------------------------------------------------------------
\* The colon-separated parts of the token under parse.
ProbeParts == Split(time_probe.time_str, ":")

\* Every part of the token is a run of decimal digits.
ProbeNumeric ==
    \A k \in 1..Len(ProbeParts) :
        /\ ProbeParts[k] # <<>>
        /\ \A d \in 1..Len(ProbeParts[k]) : IsDigit(ProbeParts[k][d])

C17_ManyPartsFail ==
    Len(ProbeParts) > 3 => time_probe.pc \in {"token", "raised"}

\* ------------------------------------------------------------------------
\* Properties of the run, continued
\* ------------------------------------------------------------------------
\* C11: a data row whose reference, trimmed, is not 11 characters long is
\* skipped: the loop goes on to the next row without parsing the time range
\* (a malformed one does not end the run), no Job is made, and the category
\* and the segment counters stay as they were.
C11_WrongLengthSkipped ==
    [][(/\ pc = "reading"
        /\ rows_read' = rows_read + 1
        /\ ~IsHeaderRow(row')
        /\ Len(row') >= 2
        /\ Len(Strip(row'[1])) # 11)
       => /\ pc' = "reading"
          /\ exit_status' = exit_status
          /\ jobs' = jobs
          /\ prefix' = prefix
          /\ output_folder' = output_folder
          /\ video_id_counts' = video_id_counts]_vars

C11_Witness ==
    /\ pc = "reading"
    /\ row = DataLongBad
    /\ prefix # None
    /\ Len(jobs) >= 1
    /\ video_id_counts # <<>>

\* The fields that identify a Job: category, reference, time range,
\* segment index and output path.
JobId(job) ==
    [prefix      |-> job.prefix,
     video_id    |-> job.video_id,
     start_time  |-> job.start_time,
     end_time    |-> job.end_time,
     seg_num     |-> job.seg_num,
     output_path |-> job.output_path]

\* C12: a second run over the same rows makes the same Jobs, in the same
\* order and with the same segment indices and paths, whatever
\* download_youtube_segment returns in either run.
C12_SameJobsInBothRuns ==
    /\ Len(second_run.jobs) = Len(jobs)
    /\ \A k \in 1..Len(jobs) : second_run.jobs[k] = JobId(jobs[k])

C12_Witness ==
    /\ Len(jobs) = 2
    /\ jobs[1].returned = "False"
    /\ jobs[2].returned = "True"
    /\ jobs[2].video_id = jobs[1].video_id
    /\ jobs[2].prefix = jobs[1].prefix
    /\ jobs[2].seg_num = 1
    /\ second_run.jobs[2].seg_num = 1

\* A step of the loop that reads a header row without a parenthesized label.
UnlabelledHeaderRead ==
    /\ pc = "reading"
    /\ rows_read' = rows_read + 1
    /\ IsHeaderRow(row')
    /\ extract_prefix_from_header(row'[1]) = None

\* A step of the loop that reads a row that is no header row while the
\* header row read last had no parenthesized label.
RowAfterUnlabelledHeader ==
    /\ pc = "reading"
    /\ rows_read' = rows_read + 1
    /\ ~IsHeaderRow(row')
    /\ last_header # <<>>
    /\ extract_prefix_from_header(last_header[1]) = None

C20_CategoryOfLastHeader ==
    [][Len(jobs') = Len(jobs) + 1
       => /\ last_header # <<>>
          /\ LET label == extract_prefix_from_header(last_header[1])
                 job   == jobs'[Len(jobs')]
                 name  == job.output_path[Len(job.output_path)]
             IN  /\ label # None
                 /\ job.prefix = label
                 /\ Parent(job.output_path) = wav_dir \o <<label>>
                 /\ Len(name) > Len(label)
                 /\ SubSeq(name, 1, Len(label) + 1) = label \o <<"-">>]_vars

C20_Witness ==
    /\ Len(jobs) = 2
    /\ jobs[1].prefix # jobs[2].prefix
    /\ last_header # <<>>
    /\ jobs[2].prefix = extract_prefix_from_header(last_header[1])
    /\ Parent(jobs[2].output_path) # Parent(jobs[1].output_path)

\* The browser methods in the order of lines 59-82.
BrowserMethods == <<"chrome", "safari", "firefox">>

\* A step that is one fetch call of download_youtube_segment.
FetchAttempt == pc = "fetch" /\ fs_cookies' = fs_cookies

\* C15: a Job's fetch methods are the stored credential file, only when
\* that file exists, then chrome, safari, firefox; each fetch call is
\* followed by the transcode step when it leaves a non-empty artifact, by
\* the next method when it leaves none and methods remain, whatever its exit
\* status, and by the return otherwise; so a Job makes 1 to 4 fetch calls,
\* at most 3 without the file, and none once the loop is left.
C15_FetchOrder ==
    [][/\ (pc = "reading" /\ pc' = "fetch")
          => /\ download_methods' \in
                    {BrowserMethods, <<"cookies.txt">> \o BrowserMethods}
             /\ download_methods'[1] = "cookies.txt" => fs_cookies
             /\ ~fs_cookies => Len(download_methods') = 3
             /\ i' = 1
       /\ FetchAttempt
          => /\ i \in 1..Len(download_methods)
             /\ Len(download_methods) <= 4
             /\ IF HasArtifact(fs_files', temp_path)
                THEN pc' = "trim" /\ i' = i
                ELSE IF i < Len(download_methods)
                THEN pc' = "fetch" /\ i' = i + 1
                ELSE /\ pc' = "reading"
                     /\ jobs'[Len(jobs')].returned = "False"
                     /\ jobs'[Len(jobs')].transcodes = 0
       /\ pc = "fetch" => download_methods' \in {download_methods, <<>>}
       /\ pc = "trim" => pc' # "fetch"]_vars

C15_Witness ==
    /\ pc = "trim"
    /\ i = 4
    /\ download_methods = <<"cookies.txt">> \o BrowserMethods
    /\ last_exit = 0
    /\ HasArtifact(fs_files, temp_path)

\* C16: while no call of download_youtube_segment is in progress, no
\* temporary artifact exists: each Job that has returned, by fetch
\* exhaustion, by transcode failure or with success, has left none at
\* temp_<reference>.wav in its category folder.
C16_NoTempAfterReturn ==
    pc \notin {"fetch", "trim"} =>
        /\ fs_files = {}
        /\ \A k \in 1..Len(jobs) :
               /\ jobs[k].returned \in {"True", "False"}
               /\ ~Exists(fs_files, Parent(jobs[k].output_path)
                                        \o <<TempFilename(jobs[k].video_id)>>)

C16_Witness ==
    /\ pc = "reading"
    /\ Len(jobs) = 2
    /\ jobs[1].returned = "False" /\ jobs[1].transcodes = 1
    /\ jobs[2].returned = "True"
    /\ fs_files = {}

\* C18 as stated: every Job of a run attempts the ordered list of fetch
\* methods the first Job attempted, also when cookies.txt is removed or
\* created while the run is in progress.
C18_SameMethodsEveryJob ==
    pc \in {"fetch", "trim"} => download_methods = first_methods

\* C18 amended: main() looks for cookies.txt once, before the first row, and
\* passes the result to every Job, but each Job tests again that the file
\* exists: a Job tries the stored credential file first exactly when the
\* file was found at the start of the run and still exists when the Job
\* starts.  A file created during the run is never used, so all Jobs then
\* attempt the same list.
C18_MethodsFromStartAndJobCheck ==
    [][/\ pc # "start" => has_cookies_file' = has_cookies_file
       /\ (pc = "reading" /\ pc' = "fetch")
          => /\ jobs'[Len(jobs')].cookies_file =
                    (IF has_cookies_file THEN cookies_file ELSE None)
             /\ download_methods' =
                    (IF has_cookies_file /\ fs_cookies
                     THEN <<"cookies.txt">> \o BrowserMethods
                     ELSE BrowserMethods)
             /\ ~has_cookies_file => download_methods' = first_methods']_vars

C18_Witness ==
    /\ pc = "fetch"
    /\ Len(jobs) = 2
    /\ has_cookies_file
    /\ ~fs_cookies
    /\ first_methods = <<"cookies.txt">> \o BrowserMethods
    /\ download_methods = BrowserMethods

\* C19: a run that finds no authorization source ends with the filesystem
\* as it was at the start: no directory and no file has been created.
C19_AbortLeavesFilesystem ==
    [][pc' = "aborted" => fs_dirs' = fs_dirs /\ fs_files' = fs_files]_vars

====
